---- MODULE Spec2Model ----
(***************************************************************************)
(* EmotiCare (src/app.py): the guarded analysis pipeline analyze_process,  *)
(* the model fallback loop generate_with_fallback, and the capped history  *)
(* file behind load_history / save_history.                                *)
(*                                                                         *)
(* Encoding of Python values:                                              *)
(*   - a str that the program builds or shows is a sequence of fragments;  *)
(*     "" is <<>> and concatenation is \o;                                 *)
(*   - a dict parsed from JSON is a record; a key is present iff it is in  *)
(*     the record's DOMAIN;                                                *)
(*   - None is the string "None" (which is also how an f-string shows it); *)
(*   - an exception is a pair <<type, detail>>, and str(e) is that pair.   *)
(***************************************************************************)
EXTENDS Integers, Naturals, Sequences, FiniteSets, TLC

VARIABLES
    environ,       \* the process environment entry GEMINI_API_KEY
    API_KEY,       \* module global set at import time
    history_file,  \* journal_history.json on disk
    now,           \* logical clock read by datetime.now()
    runs,          \* number of submissions so far
    pc,            \* position of the running analyze_process call
    stage,         \* which prompt the current generate_with_fallback call carries
    cand,          \* index of the for loop in generate_with_fallback
    last_error,    \* local last_error of generate_with_fallback
    final_input,   \* local final_input
    mood,          \* local mood
    confidence,    \* local confidence
    is_risk,       \* local is_risk
    therapy_msg,   \* local therapy_msg
    summary_data,  \* local summary_data
    journal_data,  \* local journal_data
    history,       \* local history (value returned by save_history)
    out,           \* the 7-tuple returned to the presentation layer
    terminal,      \* which return statement ended the last run
    exc,           \* the exception bound by "except Exception as e"
    attempts,      \* log: candidates tried by the latest generate_with_fallback call,
                   \*      kept until analyze_process is done calling
    response,      \* log: value that call returned
    invocations,   \* log: generate_with_fallback calls made by the current run
    hist0,         \* log: history_file as it was when the current run started
    is_crisis,     \* crisis_result.get("is_crisis") as tested at line 210
    empty_input,   \* log: whether the submission carried neither text nor audio
    raw,           \* response parser on its own: the structured content under test
    parsed,        \* response parser on its own: what the parses returned
    writers,       \* concurrent save_history calls: each process's position and locals
    overlapped     \* log: a process read the file while another was between read and write

vars == <<environ, API_KEY, history_file, now, runs, pc, stage, cand, last_error,
          final_input, mood, confidence, therapy_msg, summary_data, journal_data,
          history, out, terminal, exc, attempts, response, invocations, hist0, is_risk,
          is_crisis, empty_input, raw, parsed, writers, overlapped>>

\* the state of the two side specifications, untouched by the pipeline
side == <<raw, parsed, writers, overlapped>>

----------------------------------------------------------------------------
(* Bounds of the model *)

\* submissions per behaviour
MaxRuns == 2
\* appends per behaviour of the history-store specification
MaxAppends == 22

----------------------------------------------------------------------------
(* Program constants *)

None == "None"

DEFAULT_KEY == "Enter Your GEMINI API KEY HERE"

HISTORY_CAP == 20

INPUT_CUT == 50

candidate_models == <<"gemini-2.5-flash", "gemini-2.5-pro", "gemini-pro", "gemini-2.0-pro">>

MoodLabels == {"Happy", "Sad", "Anxious", "Angry", "Neutral", "Overwhelmed",
               "Depressive", "Suicidal-Risk"}

----------------------------------------------------------------------------
(* Python helpers *)

\* os.getenv(name, default)
getenv(env, default) == IF env.present THEN env.value ELSE default

\* dict.get(key, default)
get(d, k, default) == IF k \in DOMAIN d THEN d[k] ELSE default

\* s[:n]
Take(s, n) == SubSeq(s, 1, IF Len(s) < n THEN Len(s) ELSE n)

\* str(e)
str(e) == e

----------------------------------------------------------------------------
(* Response text and its parsing *)

\* the two fence markers: three backquotes followed by json, and three backquotes
FENCE_JSON == [t |-> "fence_json"]
FENCE == [t |-> "fence"]

IsFence(tok) == tok.t \in {"fence_json", "fence"}

\* text.replace(FENCE_JSON, '').replace(FENCE, '')
StripFences(text) == SelectSeq(text, LAMBDA tok : ~IsFence(tok))

\* json.loads: succeeds on exactly one JSON document, raises otherwise
json_loads(text) ==
    IF Len(text) = 1 /\ text[1].t = "json"
    THEN [ok |-> TRUE, value |-> text[1].v]
    ELSE [ok |-> FALSE, err |-> <<"JSONDecodeError", "Expecting value">>]

\* json.loads(res.text.replace(FENCE_JSON, '').replace(FENCE, ''))
Parse(text) == json_loads(StripFences(text))

Doc(v) == [t |-> "json", v |-> v]
Prose(s) == [t |-> "prose", s |-> s]
Plain(v) == <<Doc(v)>>
Fenced(v) == <<FENCE_JSON, Doc(v), FENCE>>

----------------------------------------------------------------------------
(* What the model service can answer, per prompt *)

MoodAnswers ==
    { Fenced([mood |-> "Neutral", confidence |-> 70, risk_flag |-> FALSE]),
      Plain([mood |-> "Sad", confidence |-> 85, risk_flag |-> TRUE]),
      Plain([mood |-> "Suicidal-Risk", risk_flag |-> TRUE]),
      Plain([mood |-> "Confused", confidence |-> 55, risk_flag |-> FALSE]),
      Plain([note |-> "cannot tell"]),
      <<Prose("I think the mood is sad")>> }

CrisisAnswers ==
    { Plain([is_crisis |-> FALSE, reason |-> "no risk"]),
      Fenced([is_crisis |-> TRUE, reason |-> "self-harm"]),
      Plain([reason |-> "unsure"]),
      <<Prose("FALSE")>> }

TherapyAnswers == { <<Prose("I hear you.")>> }

FullActions == [breathing |-> "4-7-8", immediate |-> "walk", long_term |-> "sleep"]

SummaryAnswers ==
    { Fenced([summary |-> "feeling okay", actions |-> FullActions]),
      Plain([summary |-> "feeling okay", actions |-> [note |-> "rest"]]),
      Plain([actions |-> FullActions]),
      Plain([summary |-> "feeling okay"]),
      <<Prose("Summary: okay")>> }

JournalAnswers ==
    { Fenced([themes |-> <<"work", "rest", "hope">>, prompts |-> <<"p1", "p2">>]),
      Plain([themes |-> <<"work", "rest", "hope">>, prompts |-> <<"p1">>]),
      Plain([themes |-> <<"work", "rest", "hope">>, prompts |-> <<>>]),
      Plain([themes |-> <<"work", "rest", "hope">>]),
      Plain([prompts |-> <<"p1", "p2">>]),
      <<FENCE_JSON, Prose("themes: work")>> }

Answers(s) ==
    CASE s = "mood" -> MoodAnswers
      [] s = "crisis" -> CrisisAnswers
      [] s = "therapy" -> TherapyAnswers
      [] s = "summary" -> SummaryAnswers
      [] s = "journal" -> JournalAnswers

\* what model.generate_content can raise for a candidate
ServiceErrors(m) == { <<"NotFound", m>> }

\* one call of genai.GenerativeModel(name).generate_content(prompt)
Outcomes(s, m) ==
    { [ok |-> TRUE, text |-> t] : t \in Answers(s) }
    \cup { [ok |-> FALSE, err |-> e] : e \in ServiceErrors(m) }

----------------------------------------------------------------------------
(* History file *)

\* an entry of an earlier session, written at logical time t
OldEntry(t) ==
    [timestamp |-> t, input |-> <<"o", "k", "...">>, mood |-> "Happy",
     confidence |-> 90, summary |-> "an earlier session"]

\* a store of n earlier entries, newest first
OldHistory(n) == [i \in 1..n |-> OldEntry(n - i + 1)]

MissingFile == [exists |-> FALSE, valid |-> FALSE, data |-> <<>>]
\* a file whose text was cut off after its first entry: json.load raises on it
CorruptFile == [exists |-> TRUE, valid |-> FALSE, data |-> <<OldEntry(1)>>]
FileOf(h) == [exists |-> TRUE, valid |-> TRUE, data |-> h]

\* load_history without the except of lines 93-94: it hands back what it could read
load_history_partial(f) ==
    IF f.exists THEN f.data ELSE <<>>

load_history(f) ==
    IF f.exists
    THEN IF f.valid THEN f.data ELSE <<>>
    ELSE <<>>

\* save_history without the cut of line 100
save_history_uncut(f, entry) ==
    LET h == <<entry>> \o load_history(f)
    IN  [file |-> FileOf(h), history |-> h]

\* lines 99-103 writing the entry alone, whatever was read
save_history_write_alone(read, entry) ==
    [file |-> FileOf(<<entry>>), history |-> <<entry>>]

\* lines 99-103 inserting the entry at the end instead of at index 0
save_history_write_at_end(read, entry) ==
    LET h == Take(read \o <<entry>>, HISTORY_CAP)
    IN  [file |-> FileOf(h), history |-> h]

\* lines 99-103 on the list read at line 98:
\* history.insert(0, entry); history = history[:20]; dump; return history
save_history_write(read, entry) ==
    LET h == Take(<<entry>> \o read, HISTORY_CAP)
    IN  [file |-> FileOf(h), history |-> h]

\* line 98 followed by lines 99-103
save_history(f, entry) == save_history_write(load_history(f), entry)

color_map(m) ==
    CASE m = "Happy" -> "#10b981" [] m = "Neutral" -> "#6b7280"
      [] m = "Sad" -> "#3b82f6" [] m = "Depressive" -> "#1d4ed8"
      [] m = "Anxious" -> "#f59e0b" [] m = "Overwhelmed" -> "#d97706"
      [] m = "Angry" -> "#ef4444" [] m = "Suicidal-Risk" -> "#b91c1c"
      [] OTHER -> "#6b7280"

format_history_html(h) ==
    IF h = <<>>
    THEN <<[note |-> "No entries yet. Start journaling!"]>>
    ELSE [i \in 1..Len(h) |->
            [mood |-> get(h[i], "mood", "Neutral"),
             color |-> color_map(get(h[i], "mood", "Neutral")),
             timestamp |-> h[i].timestamp,
             summary |-> h[i].summary]]

NoChart == [kind |-> None]

plot_mood_trend(h) ==
    IF h = <<>>
    THEN NoChart
    ELSE [kind |-> "figure",
          counts |-> [m \in {h[i].mood : i \in 1..Len(h)} |->
                         Cardinality({i \in 1..Len(h) : h[i].mood = m})]]

InitLens == {0, HISTORY_CAP - 1, HISTORY_CAP}

InitFiles == {MissingFile, CorruptFile} \cup { FileOf(OldHistory(n)) : n \in InitLens }

----------------------------------------------------------------------------
(* generate_with_fallback: one iteration of its for loop at candidate i *)

NoError == <<>>
NoText == <<>>

\* the candidate the loop is at
ModelAt(i) == candidate_models[i]

\* the loop without the return of line 177: it goes on after a success
generate_with_fallback_no_stop(i, last, outcome) ==
    IF i < Len(candidate_models)
    THEN [ctl |-> "continue", i |-> i + 1,
          last_error |-> IF outcome.ok THEN last ELSE outcome.err, value |-> NoText]
    ELSE IF outcome.ok
         THEN [ctl |-> "return", i |-> i, last_error |-> last, value |-> outcome.text]
         ELSE [ctl |-> "raise", i |-> i, last_error |-> outcome.err, value |-> NoText]

\* the loop keeping the first error instead of the latest one
generate_with_fallback_first_error(i, last, outcome) ==
    LET kept == IF last = NoError THEN outcome.err ELSE last
    IN  IF outcome.ok
        THEN [ctl |-> "return", i |-> i, last_error |-> last, value |-> outcome.text]
        ELSE IF i < Len(candidate_models)
             THEN [ctl |-> "continue", i |-> i + 1, last_error |-> kept, value |-> NoText]
             ELSE [ctl |-> "raise", i |-> i, last_error |-> kept, value |-> NoText]

\* the loop starting over at the first candidate when the last one fails
generate_with_fallback_retries(i, last, outcome) ==
    IF outcome.ok
    THEN [ctl |-> "return", i |-> i, last_error |-> last, value |-> outcome.text]
    ELSE [ctl |-> "continue", i |-> (i % Len(candidate_models)) + 1,
          last_error |-> outcome.err, value |-> NoText]

generate_with_fallback(i, last, outcome) ==
    IF outcome.ok
    THEN [ctl |-> "return", i |-> i, last_error |-> last, value |-> outcome.text]
    ELSE IF i < Len(candidate_models)
         THEN [ctl |-> "continue", i |-> i + 1, last_error |-> outcome.err, value |-> NoText]
         ELSE [ctl |-> "raise", i |-> i, last_error |-> outcome.err, value |-> NoText]

----------------------------------------------------------------------------
(* analyze_process: what each return statement hands to the presentation layer *)

Hidden == [visible |-> FALSE, value |-> <<>>]

Outputs(label, therapy, actions, journal, chart, hist, safety) ==
    [mood |-> label, therapy |-> therapy, actions |-> actions, journal |-> journal,
     chart |-> chart, history |-> hist, safety |-> safety]

\* line 188
ApiKeyError == Outputs(<<"API Key Error.">>, <<>>, <<>>, <<>>, NoChart, <<>>, Hidden)

\* line 190
EmptyInputNote ==
    Outputs(<<"Please share your thoughts first.">>, <<>>, <<>>, <<>>, NoChart, <<>>, Hidden)

\* the except clause still showing the stored history
ErrorOutputs_with_history(e) ==
    Outputs(<<"Error: ">> \o str(e), <<>>, <<>>, <<>>, NoChart,
            format_history_html(load_history(history_file)), Hidden)

\* line 277
ErrorOutputs(e) == Outputs(<<"Error: ">> \o str(e), <<>>, <<>>, <<>>, NoChart, <<>>, Hidden)

risk_msg == <<"CRITICAL SAFETY WARNING", "USA: 988", "India: 9152987821", "findahelpline.com">>

\* the safety branch also saving an entry for the session
SafetyIntervention_saving(f) ==
    LET r == save_history(f, [timestamp |-> now, input |-> Take(final_input, INPUT_CUT) \o <<"...">>,
                              mood |-> "Crisis Detected", confidence |-> 0, summary |-> ""])
    IN  [file |-> r.file,
         out |-> Outputs(<<"Crisis Detected">>, <<"Please seek help.">>, <<"See safety card.">>,
                         <<<<"High Risk">>>>, NoChart, format_history_html(r.history),
                         [visible |-> TRUE, value |-> risk_msg])]

\* the safety branch returning the card hidden, as the other returns do
SafetyIntervention_card_hidden(f) ==
    [file |-> f,
     out |-> Outputs(<<"Crisis Detected">>, <<"Please seek help.">>, <<"See safety card.">>,
                     <<<<"High Risk">>>>, NoChart, format_history_html(load_history(f)),
                     Hidden)]

\* lines 210-223: the file after the safety branch, and what it returns
SafetyIntervention(f) ==
    [file |-> f,
     out |-> Outputs(<<"Crisis Detected">>, <<"Please seek help.">>, <<"See safety card.">>,
                     <<<<"High Risk">>>>, NoChart, format_history_html(load_history(f)),
                     [visible |-> TRUE, value |-> risk_msg])]

\* the crisis-check prompt sent whatever mood detection said
CrisisResult_always_asked(risk) == [known |-> FALSE, value |-> [is_crisis |-> FALSE]]

\* the crisis-check prompt never sent: the flag of mood detection decides alone
CrisisResult_never_asked(risk) == [known |-> TRUE, value |-> [is_crisis |-> risk]]

\* line 203: the crisis-check prompt is sent only when mood detection raised no flag
CrisisResult(risk) ==
    IF risk THEN [known |-> TRUE, value |-> [is_crisis |-> TRUE]]
    ELSE [known |-> FALSE, value |-> [is_crisis |-> FALSE]]

\* lines 237-243 storing a fixed label instead of the detected one
Entry_fixed_mood(t, input, m, c, sd) ==
    [timestamp |-> t,
     input |-> Take(input, INPUT_CUT) \o <<"...">>,
     mood |-> "Neutral",
     confidence |-> c,
     summary |-> get(sd, "summary", "")]

\* lines 237-243
Entry(t, input, m, c, sd) ==
    [timestamp |-> t,
     input |-> Take(input, INPUT_CUT) \o <<"...">>,
     mood |-> m,
     confidence |-> c,
     summary |-> get(sd, "summary", "")]

\* lines 247-253
actions_html(sd) ==
    IF "actions" \notin DOMAIN sd
    THEN [ok |-> FALSE, err |-> <<"KeyError", "actions">>]
    ELSE [ok |-> TRUE,
          value |-> <<get(sd.actions, "breathing", None),
                      get(sd.actions, "immediate", None),
                      get(sd.actions, "long_term", None)>>]

\* lines 255-264
journal_html(jd) ==
    IF get(jd, "prompts", <<"">>) = <<>>
    THEN [ok |-> FALSE, err |-> <<"IndexError", "list index out of range">>]
    ELSE [ok |-> TRUE,
          value |-> <<get(jd, "themes", <<>>),
                      <<get(jd, "prompts", <<"">>)[1]>>,
                      <<IF Len(get(jd, "prompts", <<>>)) > 1
                        THEN get(jd, "prompts", <<"">>)[2] ELSE "">>>>]

\* lines 266-274
SuccessOutputs(m, c, therapy, actions, journal, h) ==
    Outputs(<<m, " (", ToString(c), "%)">>, therapy, actions, journal,
            plot_mood_trend(h), format_history_html(h), Hidden)

----------------------------------------------------------------------------
(* State machine *)

NoData == [nodata |-> TRUE]

\* the side specifications at rest
NoParse == [done |-> FALSE]
NoWriters == <<>>

NoOutputs == Outputs(<<>>, <<>>, <<>>, <<>>, NoChart, <<>>, Hidden)

EnvValues ==
    { [present |-> FALSE, value |-> ""],
      [present |-> TRUE, value |-> ""],
      [present |-> TRUE, value |-> "AIza-user-key"] }

\* a text one character longer than the cut of line 239
LongText == [i \in 1..(INPUT_CUT + 1) |-> "x"]

TextInputs == {<<>>, LongText}
AudioInputs == {None, "clip.wav"}

\* lines 15-19 at import, and the history file found on disk
Init ==
    /\ environ \in EnvValues
    /\ API_KEY = getenv(environ, DEFAULT_KEY)
    /\ history_file \in InitFiles
    /\ now = HISTORY_CAP
    /\ runs = 0
    /\ pc = "idle"
    /\ stage = "none"
    /\ cand = 0
    /\ last_error = NoError
    /\ final_input = <<>>
    /\ mood = None
    /\ confidence = 0
    /\ is_risk = FALSE
    /\ therapy_msg = <<>>
    /\ summary_data = NoData
    /\ journal_data = NoData
    /\ history = <<>>
    /\ out = NoOutputs
    /\ terminal = "none"
    /\ exc = NoError
    /\ attempts = <<>>
    /\ response = NoText
    /\ invocations = <<>>
    /\ hist0 = history_file
    /\ is_crisis = FALSE
    /\ empty_input = FALSE
    /\ raw = <<>>
    /\ parsed = NoParse
    /\ writers = NoWriters
    /\ overlapped = FALSE

\* a fresh call frame of analyze_process
NewFrame(text) ==
    /\ runs' = runs + 1
    /\ now' = now + 1
    /\ final_input' = text
    /\ mood' = None
    /\ confidence' = 0
    /\ is_risk' = FALSE
    /\ therapy_msg' = <<>>
    /\ summary_data' = NoData
    /\ journal_data' = NoData
    /\ history' = <<>>
    /\ exc' = NoError
    /\ attempts' = <<>>
    /\ response' = NoText
    /\ hist0' = history_file
    /\ is_crisis' = FALSE
    /\ UNCHANGED <<side, environ, API_KEY, history_file>>

\* a return statement of analyze_process
Return(term, o) ==
    /\ pc' = "idle"
    /\ stage' = "none"
    /\ cand' = 0
    /\ last_error' = NoError
    /\ terminal' = term
    /\ out' = o

\* line 198 with "Neutral" as the default
ExtractMood_neutral(mood_data) == get(mood_data, "mood", "Neutral")

\* line 198: mood_data.get("mood", "Unknown")
ExtractMood(mood_data) == get(mood_data, "mood", "Unknown")

\* the except clause, lines 276-277
Except(e) ==
    /\ exc' = e
    /\ Return("PipelineError", ErrorOutputs(e))

\* entering generate_with_fallback with the prompt of stage s
Begin(s) ==
    /\ pc' = "gen"
    /\ stage' = s
    /\ cand' = 1
    /\ last_error' = NoError
    /\ invocations' = Append(invocations, s)
    /\ UNCHANGED <<terminal, out>>

\* the log of the candidates tried by the call in progress
Logged(o) ==
    LET rec == [model |-> ModelAt(cand), outcome |-> o]
    IN  IF cand = 1 THEN <<rec>> ELSE Append(attempts, rec)

\* lines 187-188
ConfigurationError ==
    /\ pc = "idle"
    /\ runs < MaxRuns
    /\ \E text \in TextInputs, audio \in AudioInputs :
          /\ API_KEY = ""
          /\ NewFrame(<<>>)
          /\ empty_input' = (text = <<>> /\ audio = None)
          /\ invocations' = <<>>
          /\ Return("ConfigurationError", ApiKeyError)

\* lines 189-190
EmptyInput ==
    /\ pc = "idle"
    /\ runs < MaxRuns
    /\ \E text \in TextInputs, audio \in AudioInputs :
          /\ API_KEY # ""
          /\ text = <<>> /\ audio = None
          /\ NewFrame(<<>>)
          /\ empty_input' = TRUE
          /\ invocations' = <<>>
          /\ Return("EmptyInput", EmptyInputNote)

\* lines 192-196: the guards pass and the mood-detection prompt is sent
Submit ==
    /\ pc = "idle"
    /\ runs < MaxRuns
    /\ \E text \in TextInputs, audio \in AudioInputs :
          /\ API_KEY # ""
          /\ ~(text = <<>> /\ audio = None)
          /\ NewFrame(text)
          /\ empty_input' = FALSE
          /\ pc' = "gen"
          /\ stage' = "mood"
          /\ cand' = 1
          /\ last_error' = NoError
          /\ invocations' = <<"mood">>
          /\ terminal' = "none"
          /\ out' = NoOutputs

\* lines 173-181: a candidate raises and the loop moves on
NextCandidate ==
    /\ pc = "gen"
    /\ \E o \in Outcomes(stage, ModelAt(cand)) :
          LET g == generate_with_fallback(cand, last_error, o)
          IN  /\ g.ctl = "continue"
              /\ cand' = g.i
              /\ last_error' = g.last_error
              /\ attempts' = Logged(o)
    /\ UNCHANGED <<side, empty_input, environ, API_KEY, history_file, now, runs, pc, stage, final_input,
                   mood, confidence, therapy_msg, summary_data, journal_data, history,
                   out, terminal, exc, response, invocations, hist0, is_risk, is_crisis>>

\* line 184, caught at line 276: every candidate raised
AllCandidatesExhausted ==
    /\ pc = "gen"
    /\ \E o \in Outcomes(stage, ModelAt(cand)) :
          LET g == generate_with_fallback(cand, last_error, o)
          IN  /\ g.ctl = "raise"
              /\ attempts' = Logged(o)
              /\ Except(g.last_error)
    /\ UNCHANGED <<side, empty_input, environ, API_KEY, history_file, now, runs, final_input,
                   mood, confidence, therapy_msg, summary_data, journal_data, history,
                   response, invocations, hist0, is_risk, is_crisis>>

\* an exception inside the try block ends the run at the except clause
Fail(e) ==
    /\ Except(e)
    /\ UNCHANGED <<invocations, history_file, is_crisis>>

\* the next prompt is sent
Call(s) ==
    /\ Begin(s)
    /\ UNCHANGED <<history_file, exc, is_crisis>>

\* lines 209-226: the branch on crisis_result.get("is_crisis")
AfterCrisisCheck(crisis_result) ==
    IF get(crisis_result, "is_crisis", FALSE)
    THEN LET s == SafetyIntervention(history_file)
         IN  /\ is_crisis' = TRUE
             /\ history_file' = s.file
             /\ Return("SafetyIntervention", s.out)
             /\ UNCHANGED <<invocations, exc>>
    ELSE Call("therapy")

\* lines 196-204: a candidate answers the mood-detection prompt
MoodDetect ==
    /\ pc = "gen" /\ stage = "mood"
    /\ \E o \in Outcomes(stage, ModelAt(cand)) :
          LET g == generate_with_fallback(cand, last_error, o)
              p == Parse(g.value)
          IN  /\ g.ctl = "return"
              /\ attempts' = Logged(o)
              /\ response' = g.value
              /\ IF ~p.ok
                 THEN Fail(p.err) /\ UNCHANGED <<mood, confidence, is_risk>>
                 ELSE LET cr == CrisisResult(get(p.value, "risk_flag", FALSE))
                      IN  /\ mood' = ExtractMood(p.value)
                          /\ confidence' = get(p.value, "confidence", 0)
                          /\ is_risk' = get(p.value, "risk_flag", FALSE)
                          /\ IF cr.known
                             THEN AfterCrisisCheck(cr.value)
                             ELSE Call("crisis")
    /\ UNCHANGED <<side, empty_input, environ, API_KEY, now, runs, final_input, therapy_msg, summary_data,
                   journal_data, history, hist0>>

\* lines 206-207: a candidate answers the crisis-check prompt
CrisisCheck ==
    /\ pc = "gen" /\ stage = "crisis"
    /\ \E o \in Outcomes(stage, ModelAt(cand)) :
          LET g == generate_with_fallback(cand, last_error, o)
              p == Parse(g.value)
          IN  /\ g.ctl = "return"
              /\ attempts' = Logged(o)
              /\ response' = g.value
              /\ IF ~p.ok THEN Fail(p.err) ELSE AfterCrisisCheck(p.value)
    /\ UNCHANGED <<side, empty_input, environ, API_KEY, now, runs, final_input, mood, confidence, therapy_msg,
                   summary_data, journal_data, history, hist0, is_risk>>

\* line 226: a candidate answers the therapy prompt (free text, not parsed)
TherapyResponse ==
    /\ pc = "gen" /\ stage = "therapy"
    /\ \E o \in Outcomes(stage, ModelAt(cand)) :
          LET g == generate_with_fallback(cand, last_error, o)
          IN  /\ g.ctl = "return"
              /\ attempts' = Logged(o)
              /\ response' = g.value
              /\ therapy_msg' = g.value
              /\ Call("summary")
    /\ UNCHANGED <<side, empty_input, environ, API_KEY, now, runs, final_input, mood, confidence,
                   summary_data, journal_data, history, hist0, is_risk>>

\* lines 229-230: a candidate answers the summary prompt
SummaryActions ==
    /\ pc = "gen" /\ stage = "summary"
    /\ \E o \in Outcomes(stage, ModelAt(cand)) :
          LET g == generate_with_fallback(cand, last_error, o)
              p == Parse(g.value)
          IN  /\ g.ctl = "return"
              /\ attempts' = Logged(o)
              /\ response' = g.value
              /\ IF ~p.ok
                 THEN Fail(p.err) /\ UNCHANGED summary_data
                 ELSE summary_data' = p.value /\ Call("journal")
    /\ UNCHANGED <<side, empty_input, environ, API_KEY, now, runs, final_input, mood, confidence, therapy_msg,
                   journal_data, history, hist0, is_risk>>

\* lines 233-234: a candidate answers the journaling prompt
Journaling ==
    /\ pc = "gen" /\ stage = "journal"
    /\ \E o \in Outcomes(stage, ModelAt(cand)) :
          LET g == generate_with_fallback(cand, last_error, o)
              p == Parse(g.value)
          IN  /\ g.ctl = "return"
              /\ attempts' = Logged(o)
              /\ response' = g.value
              /\ IF ~p.ok
                 THEN Fail(p.err) /\ UNCHANGED journal_data
                 ELSE /\ journal_data' = p.value
                      /\ pc' = "persist"
                      /\ stage' = "none"
                      /\ cand' = 0
                      /\ last_error' = NoError
                      /\ UNCHANGED <<terminal, out, invocations, history_file, exc, is_crisis>>
    /\ UNCHANGED <<side, empty_input, environ, API_KEY, now, runs, final_input, mood, confidence, therapy_msg,
                   summary_data, history, hist0, is_risk>>

\* lines 236-244: the entry is built and saved
Persist ==
    /\ pc = "persist"
    /\ LET r == save_history(history_file,
                             Entry(now, final_input, mood, confidence, summary_data))
       IN  /\ history_file' = r.file
           /\ history' = r.history
    /\ pc' = "format"
    /\ attempts' = <<>>
    /\ response' = NoText
    /\ UNCHANGED <<side, empty_input, environ, API_KEY, now, runs, stage, cand, last_error, final_input, mood,
                   confidence, therapy_msg, summary_data, journal_data, out, terminal, exc,
                   invocations, hist0, is_risk, is_crisis>>

\* line 101: open(HISTORY_FILE, "w") raises, the file is left as it was
WriteErrors == { <<"PermissionError", "journal_history.json">> }

\* lines 244 and 276: save_history fails on its write and the except clause takes over
PersistFails ==
    /\ pc = "persist"
    /\ \E e \in WriteErrors : Except(e)
    /\ attempts' = <<>>
    /\ response' = NoText
    /\ UNCHANGED <<side, empty_input, environ, API_KEY, history_file, now, runs, final_input, mood,
                   confidence, therapy_msg, summary_data, journal_data, history,
                   invocations, hist0, is_risk, is_crisis>>

\* lines 246-274: the outputs are formatted and returned
FormatOutputs ==
    /\ pc = "format"
    /\ LET a == actions_html(summary_data)
           j == journal_html(journal_data)
       IN  IF ~a.ok THEN Fail(a.err)
           ELSE IF ~j.ok THEN Fail(j.err)
           ELSE /\ Return("Success",
                          SuccessOutputs(mood, confidence, therapy_msg, a.value, j.value, history))
                /\ UNCHANGED <<exc, invocations, history_file, is_crisis>>
    /\ UNCHANGED <<side, empty_input, environ, API_KEY, now, runs, final_input, mood, confidence, therapy_msg,
                   summary_data, journal_data, history, attempts, response, hist0, is_risk>>

Next ==
    \/ ConfigurationError
    \/ EmptyInput
    \/ Submit
    \/ NextCandidate
    \/ AllCandidatesExhausted
    \/ MoodDetect
    \/ CrisisCheck
    \/ TherapyResponse
    \/ SummaryActions
    \/ Journaling
    \/ Persist
    \/ PersistFails
    \/ FormatOutputs

Spec == Init /\ [][Next]_vars

\* the steps of a run in progress: everything but the three ways a run starts
RunStep ==
    \/ NextCandidate
    \/ AllCandidatesExhausted
    \/ MoodDetect
    \/ CrisisCheck
    \/ TherapyResponse
    \/ SummaryActions
    \/ Journaling
    \/ Persist
    \/ PersistFails
    \/ FormatOutputs

\* the handler started on a store it cannot read, with the key variable set
InitLive ==
    /\ Init
    /\ environ.present
    /\ history_file = CorruptFile

\* every model call returns or fails, and the handler then takes its next step
SpecLive == InitLive /\ [][Next]_vars /\ WF_vars(RunStep)

----------------------------------------------------------------------------
(* The history store on its own: a sequence of save_history calls *)

StoreFiles == {MissingFile, CorruptFile} \cup { FileOf(OldHistory(n)) : n \in 0..HISTORY_CAP }

InitStore ==
    /\ environ = [present |-> TRUE, value |-> "AIza-user-key"]
    /\ API_KEY = getenv(environ, DEFAULT_KEY)
    /\ history_file \in StoreFiles
    /\ now = HISTORY_CAP
    /\ runs = 0
    /\ pc = "store"
    /\ stage = "none"
    /\ cand = 0
    /\ last_error = NoError
    /\ final_input \in TextInputs
    /\ \E d \in {[mood |-> "Neutral", confidence |-> 70], [note |-> "cannot tell"]} :
          /\ mood = get(d, "mood", "Unknown")
          /\ confidence = get(d, "confidence", 0)
    /\ is_risk = FALSE
    /\ therapy_msg = <<>>
    /\ summary_data \in {[summary |-> "feeling okay"], [actions |-> FullActions]}
    /\ journal_data = NoData
    /\ history = <<>>
    /\ out = NoOutputs
    /\ terminal = "none"
    /\ exc = NoError
    /\ attempts = <<>>
    /\ response = NoText
    /\ invocations = <<>>
    /\ hist0 = history_file
    /\ is_crisis = FALSE
    /\ empty_input = FALSE
    /\ raw = <<>>
    /\ parsed = NoParse
    /\ writers = NoWriters
    /\ overlapped = FALSE

\* one save_history call, at a later time than the one before
StoreAppend ==
    /\ pc = "store"
    /\ runs < MaxAppends
    /\ runs' = runs + 1
    /\ now' = now + 1
    /\ LET r == save_history(history_file,
                             Entry(now + 1, final_input, mood, confidence, summary_data))
       IN  /\ history_file' = r.file
           /\ history' = r.history
    /\ UNCHANGED <<side, empty_input, environ, API_KEY, pc, stage, cand, last_error, final_input, mood,
                   confidence, is_risk, therapy_msg, summary_data, journal_data, out,
                   terminal, exc, attempts, response, invocations, hist0, is_crisis>>

NextStore == StoreAppend

SpecStore == InitStore /\ [][NextStore]_vars

----------------------------------------------------------------------------
(* The response parser on its own, character by character:
   json.loads(res.text.replace(FENCE_JSON_MARK, "").replace(FENCE_MARK, "")) *)

\* the characters a response is made of; OPEN and CLOSE stand for the text
\* around the one string value of an object, neither holds a backquote
BQ == "backquote"
NL == "\n"
OPEN == "{\"summary\": \""
CLOSE == "\"}"

FENCE_MARK == <<BQ, BQ, BQ>>
FENCE_JSON_MARK == <<BQ, BQ, BQ, "j", "s", "o", "n">>

\* str.replace(old, ""): every match, leftmost first, none overlapping
RECURSIVE replace(_, _)
replace(text, old) ==
    IF Len(text) < Len(old)
    THEN text
    ELSE IF SubSeq(text, 1, Len(old)) = old
         THEN replace(SubSeq(text, Len(old) + 1, Len(text)), old)
         ELSE <<text[1]>> \o replace(Tail(text), old)

\* line 197: both markers are taken out wherever they stand
strip_fences(text) == replace(replace(text, FENCE_JSON_MARK), FENCE_MARK)

\* json.loads skips white space around the document
RECURSIVE lstrip(_)
lstrip(text) ==
    IF text # <<>> /\ text[1] = NL THEN lstrip(Tail(text)) ELSE text

RECURSIVE rstrip(_)
rstrip(text) ==
    IF text # <<>> /\ text[Len(text)] = NL
    THEN rstrip(SubSeq(text, 1, Len(text) - 1))
    ELSE text

\* the characters a string value is made of here
StringChars == {BQ, "j", "s", "o", "n", "x"}

\* json.loads on characters: an object with one string value, or JSONDecodeError
loads(text) ==
    LET t == rstrip(lstrip(text))
        body == SubSeq(t, 2, Len(t) - 1)
    IN  IF /\ Len(t) >= 2
           /\ t[1] = OPEN
           /\ t[Len(t)] = CLOSE
           /\ \A i \in 1..Len(body) : body[i] \in StringChars
        THEN [ok |-> TRUE, value |-> [summary |-> body]]
        ELSE [ok |-> FALSE, err |-> <<"JSONDecodeError", "Expecting value">>]

\* lines 197, 204, 230, 234
ResponseParser(text) == loads(strip_fences(text))

\* the document whose string value is body
Document(body) == <<OPEN>> \o body \o <<CLOSE>>

\* the document as the model service wraps it
Wrapped(c) == FENCE_JSON_MARK \o <<NL>> \o c \o <<NL>> \o FENCE_MARK

\* the pieces string values are put together from, and how many of them
MaxPieces == 3
Pieces == { <<"x">>, <<BQ>>, FENCE_MARK, FENCE_JSON_MARK, <<"j", "s", "o", "n">> }

RECURSIVE Bodies(_)
Bodies(n) ==
    IF n = 0
    THEN { <<>> }
    ELSE Bodies(n - 1) \cup { b \o q : b \in Bodies(n - 1), q \in Pieces }

Pending == [pending |-> TRUE]

InitParser ==
    /\ environ = [present |-> TRUE, value |-> "AIza-user-key"]
    /\ API_KEY = getenv(environ, DEFAULT_KEY)
    /\ history_file = MissingFile
    /\ now = 0
    /\ runs = 0
    /\ pc = "parse"
    /\ stage = "none"
    /\ cand = 0
    /\ last_error = NoError
    /\ final_input = <<>>
    /\ mood = None
    /\ confidence = 0
    /\ is_risk = FALSE
    /\ therapy_msg = <<>>
    /\ summary_data = NoData
    /\ journal_data = NoData
    /\ history = <<>>
    /\ out = NoOutputs
    /\ terminal = "none"
    /\ exc = NoError
    /\ attempts = <<>>
    /\ response = NoText
    /\ invocations = <<>>
    /\ hist0 = history_file
    /\ is_crisis = FALSE
    /\ empty_input = FALSE
    /\ raw \in { Document(b) : b \in Bodies(MaxPieces) }
    /\ parsed = [plain |-> Pending, fenced |-> Pending]
    /\ writers = NoWriters
    /\ overlapped = FALSE

parser_frame == <<environ, API_KEY, history_file, now, runs, pc, stage, cand, last_error,
                  final_input, mood, confidence, is_risk, therapy_msg, summary_data,
                  journal_data, history, out, terminal, exc, attempts, invocations,
                  hist0, is_crisis, empty_input, raw, writers, overlapped>>

\* the service answers with the document as it is
ParsePlain ==
    /\ parsed.plain = Pending
    /\ response' = raw
    /\ parsed' = [parsed EXCEPT !.plain = ResponseParser(raw)]
    /\ UNCHANGED parser_frame

\* the service answers with the document between fence markers
ParseFenced ==
    /\ parsed.fenced = Pending
    /\ response' = Wrapped(raw)
    /\ parsed' = [parsed EXCEPT !.fenced = ResponseParser(Wrapped(raw))]
    /\ UNCHANGED parser_frame

NextParser == ParsePlain \/ ParseFenced

SpecParser == InitParser /\ [][NextParser]_vars

----------------------------------------------------------------------------
(* save_history called by two processes on the same file, step by step *)

Writers == {1, 2}

\* the file between open(HISTORY_FILE, "w") and the end of json.dump
TruncatedFile == [exists |-> TRUE, valid |-> FALSE, data |-> <<>>]

\* the entry process w brings to save_history, built at its own time
EntryOf(w) == Entry(now + w, final_input, mood, confidence, summary_data)

InitWriters ==
    /\ environ = [present |-> TRUE, value |-> "AIza-user-key"]
    /\ API_KEY = getenv(environ, DEFAULT_KEY)
    /\ history_file \in StoreFiles
    /\ now = HISTORY_CAP
    /\ runs = 0
    /\ pc = "writers"
    /\ stage = "none"
    /\ cand = 0
    /\ last_error = NoError
    /\ final_input = LongText
    /\ mood = "Neutral"
    /\ confidence = 70
    /\ is_risk = FALSE
    /\ therapy_msg = <<>>
    /\ summary_data = [summary |-> "feeling okay"]
    /\ journal_data = NoData
    /\ history = <<>>
    /\ out = NoOutputs
    /\ terminal = "none"
    /\ exc = NoError
    /\ attempts = <<>>
    /\ response = NoText
    /\ invocations = <<>>
    /\ hist0 = history_file
    /\ is_crisis = FALSE
    /\ empty_input = FALSE
    /\ raw = <<>>
    /\ parsed = NoParse
    /\ writers = [w \in Writers |-> [at |-> "load", read |-> <<>>, history |-> <<>>]]
    /\ overlapped = FALSE

writers_frame == <<environ, API_KEY, now, pc, stage, cand, last_error, final_input, mood,
                   confidence, is_risk, therapy_msg, summary_data, journal_data, history,
                   out, terminal, exc, attempts, response, invocations, hist0, is_crisis,
                   empty_input, raw, parsed>>

\* line 98: history = load_history()
WriterLoad(w) ==
    /\ pc = "writers"
    /\ writers[w].at = "load"
    /\ writers' = [writers EXCEPT ![w] = [at |-> "open", read |-> load_history(history_file),
                                           history |-> load_history(history_file)]]
    /\ overlapped' = (overlapped \/ \E u \in Writers \ {w} : writers[u].at \in {"open", "dump"})
    /\ UNCHANGED <<history_file, runs>>
    /\ UNCHANGED writers_frame

\* lines 99-101: insert, cut, and open(HISTORY_FILE, "w"), which empties the file
WriterOpen(w) ==
    /\ pc = "writers"
    /\ writers[w].at = "open"
    /\ writers' = [writers EXCEPT ![w].at = "dump",
                                  ![w].history = save_history_write(writers[w].read, EntryOf(w)).history]
    /\ history_file' = TruncatedFile
    /\ UNCHANGED <<overlapped, runs>>
    /\ UNCHANGED writers_frame

\* lines 102-103: json.dump(history, f) and return
WriterDump(w) ==
    /\ pc = "writers"
    /\ writers[w].at = "dump"
    /\ writers' = [writers EXCEPT ![w].at = "done"]
    /\ history_file' = save_history_write(writers[w].read, EntryOf(w)).file
    /\ runs' = runs + 1
    /\ UNCHANGED overlapped
    /\ UNCHANGED writers_frame

NextWriters == \E w \in Writers : WriterLoad(w) \/ WriterOpen(w) \/ WriterDump(w)

SpecWriters == InitWriters /\ [][NextWriters]_vars

----------------------------------------------------------------------------
(* Claims *)

Last(q) == q[Len(q)]

\* C1: a run whose mood-detection answer parses with risk_flag true has made
\* exactly one model invocation, the mood-detection one, and has ended in
\* SafetyIntervention: no crisis-check, therapy, summary or journaling call.
C1_RiskFlagShortCircuits ==
    is_risk => /\ invocations = <<"mood">>
               /\ pc = "idle"
               /\ terminal = "SafetyIntervention"

C1_Witness ==
    /\ is_risk
    /\ terminal = "SafetyIntervention"
    /\ invocations = <<"mood">>
    /\ Len(attempts) = 2

\* C2: a run that ends in SafetyIntervention, by risk_flag or by the
\* crisis-check answer, leaves the history file exactly as the run found it.
C2_SafetyLeavesHistory ==
    terminal = "SafetyIntervention" => history_file = hist0

C2_Witness ==
    /\ terminal = "SafetyIntervention"
    /\ ~is_risk
    /\ invocations = <<"mood", "crisis">>
    /\ Len(hist0.data) = HISTORY_CAP
    /\ runs = 2

\* C3: after every save_history call the file holds at most 20 entries,
\* newest first (strictly decreasing time of append), the entry just
\* appended at the head.
C3_CappedNewestFirst ==
    /\ history_file.valid =>
          /\ Len(history_file.data) <= HISTORY_CAP
          /\ \A i \in 1..(Len(history_file.data) - 1) :
                history_file.data[i].timestamp > history_file.data[i + 1].timestamp
    /\ runs > 0 =>
          /\ history_file.valid
          /\ history_file.data # <<>>
          /\ history_file.data[1].timestamp = now
          /\ history = history_file.data

C3_Witness ==
    /\ hist0 = FileOf(<<>>)
    /\ runs > HISTORY_CAP
    /\ Len(history_file.data) = HISTORY_CAP
    /\ history_file.data[HISTORY_CAP].timestamp = now - HISTORY_CAP + 1

\* C4: the candidates a generate_with_fallback call has tried are a prefix of
\* the priority list, in order and each once; only the last one tried can
\* have succeeded, and its response is the value the call returned.
C4_PriorityOrderStopAtSuccess ==
    /\ Len(attempts) <= Len(candidate_models)
    /\ \A k \in 1..Len(attempts) : attempts[k].model = candidate_models[k]
    /\ \A k \in 1..(Len(attempts) - 1) : ~attempts[k].outcome.ok
    /\ (attempts # <<>> /\ Last(attempts).outcome.ok) =>
          response = Last(attempts).outcome.text
    /\ (pc = "gen" /\ cand > 1) =>
          /\ Len(attempts) = cand - 1
          /\ ~Last(attempts).outcome.ok
    /\ (attempts # <<>> /\ ~Last(attempts).outcome.ok /\ pc # "gen") =>
          Len(attempts) = Len(candidate_models)

C4_Witness ==
    /\ Len(attempts) = 3
    /\ ~attempts[1].outcome.ok
    /\ ~attempts[2].outcome.ok
    /\ attempts[3].outcome.ok
    /\ response = attempts[3].outcome.text
    /\ invocations = <<"mood", "crisis", "therapy", "summary">>

\* C5: when every candidate of the list has failed, the run ends with the
\* error of the last candidate tried, which is not the first one's.
C5_LastErrorRaised ==
    (Len(attempts) = Len(candidate_models) /\ ~Last(attempts).outcome.ok) =>
        /\ pc = "idle"
        /\ terminal = "PipelineError"
        /\ exc = Last(attempts).outcome.err
        /\ exc # attempts[1].outcome.err
        /\ out.mood = <<"Error: ">> \o Last(attempts).outcome.err

C5_Witness ==
    /\ Len(attempts) = Len(candidate_models)
    /\ \A k \in 1..Len(attempts) : ~attempts[k].outcome.ok
    /\ terminal = "PipelineError"
    /\ exc = <<"NotFound", "gemini-2.0-pro">>
    /\ invocations = <<"mood", "crisis", "therapy">>

\* C6: a history entry is written only by a run that ends in Success; a run
\* that ends in PipelineError leaves the history file as it found it.
C6_SavedOnlyOnSuccess ==
    /\ (pc = "idle" /\ history_file # hist0) => terminal = "Success"
    /\ terminal = "PipelineError" => history_file = hist0

\* C7: with no API key in the environment, every run ends in
\* ConfigurationError, with no model invocation and no history write.
C7_NoKeyIsConfigurationError ==
    ((~environ.present \/ environ.value = "") /\ runs > 0) =>
        /\ pc = "idle"
        /\ terminal = "ConfigurationError"
        /\ invocations = <<>>
        /\ history_file = hist0

\* C8: a normal-branch run whose journaling answer parses with fewer than two
\* prompts (one, none, or no prompts key) ends in Success with the second
\* prompt slot empty.
C8_FewPromptsStillSucceed ==
    ( /\ pc = "idle"
      /\ "nodata" \notin DOMAIN journal_data
      /\ "actions" \in DOMAIN summary_data
      /\ Len(get(journal_data, "prompts", <<>>)) < 2 ) =>
        /\ terminal = "Success"
        /\ out.journal[3] = <<"">>

\* C9: once every structured answer of a run has parsed, no absent key makes
\* the run fail: it ends in Success (the journaling answer not being the
\* empty prompt list of C8).
C9_AbsentKeysNeverFail ==
    ( /\ pc = "idle"
      /\ "nodata" \notin DOMAIN journal_data
      /\ get(journal_data, "prompts", <<"">>) # <<>> ) =>
        terminal = "Success"

Cleared(o) ==
    /\ o.therapy = <<>>
    /\ o.actions = <<>>
    /\ o.journal = <<>>
    /\ o.chart = NoChart
    /\ o.history = <<>>
    /\ ~o.safety.visible

\* C10 as stated: every error outcome (ConfigurationError, EmptyInput,
\* PipelineError) shows "Error: " and the message as the mood label, with every
\* other output cleared and the safety card hidden.
C10_EveryErrorPrefixed ==
    terminal \in {"ConfigurationError", "EmptyInput", "PipelineError"} =>
        /\ out.mood # <<>>
        /\ out.mood[1] = "Error: "
        /\ Cleared(out)

\* C10 as amended: PipelineError shows "Error: " and the message of the caught
\* exception; ConfigurationError and EmptyInput show their own fixed labels
\* without that prefix; in all three every other output is cleared and the
\* safety card is hidden.
C10_ErrorOutcomes ==
    /\ terminal = "PipelineError" =>
          /\ exc # NoError
          /\ out.mood = <<"Error: ">> \o exc
          /\ Cleared(out)
    /\ terminal = "ConfigurationError" =>
          /\ out.mood = <<"API Key Error.">>
          /\ Cleared(out)
    /\ terminal = "EmptyInput" =>
          /\ out.mood = <<"Please share your thoughts first.">>
          /\ Cleared(out)

C10_Witness ==
    /\ terminal = "PipelineError"
    /\ exc[1] = "JSONDecodeError"
    /\ invocations = <<"mood", "crisis", "therapy", "summary", "journal">>
    /\ hist0.data # <<>>


\* C11: for every valid structured content c, the parser applied to c between
\* fence markers and applied to c alone both succeed and give the same result, and
\* that result is the direct parse of c.  Refuted: a string value holding a fence
\* marker comes back without it.
C11_FencedPlainDirectAgree ==
    (parsed.plain # Pending /\ parsed.fenced # Pending) =>
        /\ parsed.plain.ok
        /\ parsed.fenced.ok
        /\ parsed.fenced = parsed.plain
        /\ parsed.plain = loads(raw)

\* what load_history finds in a file: its entries, or nothing when the file is
\* missing or does not parse
Stored(f) == IF f.exists /\ f.valid THEN f.data ELSE <<>>

\* C12: a run that ends in Success leaves the store with exactly one new entry, at
\* the front, carrying the mood and confidence extracted by mood detection and the
\* summary of the summary response; the entries stored before follow it in their
\* previous order (as many of them as the cap leaves room for).
C12_SuccessAddsHeadEntry ==
    (pc = "idle" /\ terminal = "Success") =>
        LET old == Stored(hist0)
            new == history_file.data
        IN  /\ history_file.exists /\ history_file.valid
            /\ Len(new) = (IF Len(old) < HISTORY_CAP THEN Len(old) + 1 ELSE HISTORY_CAP)
            /\ new[1].mood = mood
            /\ new[1].confidence = confidence
            /\ new[1].summary = (IF "summary" \in DOMAIN summary_data
                                 THEN summary_data.summary ELSE "")
            /\ new[1].timestamp = now
            /\ \A i \in 2..Len(new) : new[i] = old[i - 1]
            /\ \A i \in 1..Len(old) : old[i].timestamp < now

C12_Witness ==
    /\ pc = "idle" /\ terminal = "Success"
    /\ invocations = <<"mood", "crisis", "therapy", "summary", "journal">>
    /\ mood = "Neutral" /\ confidence = 70 /\ ~is_risk
    /\ Len(hist0.data) = HISTORY_CAP - 1
    /\ Len(history_file.data) = HISTORY_CAP
    /\ history_file.data[1].mood = "Neutral"
    /\ history_file.data[2] = hist0.data[1]

\* C13: one save_history call on a persisted sequence h writes and returns the
\* first 20 elements of the entry followed by h: the new entry is at the head, every
\* earlier entry moves down by one place unchanged, and only the 20th of a full
\* store is left out.
C13_AppendKeepsFirstTwenty ==
    [][ LET old == Stored(history_file)
            new == history_file'.data
        IN  /\ history_file'.exists /\ history_file'.valid
            /\ history' = new
            /\ Len(new) = (IF Len(old) < HISTORY_CAP THEN Len(old) + 1 ELSE HISTORY_CAP)
            /\ new[1] = Entry(now', final_input, mood, confidence, summary_data)
            /\ \A i \in 2..Len(new) : new[i] = old[i - 1]
      ]_vars

C13_Witness ==
    /\ hist0 = FileOf(OldHistory(HISTORY_CAP))
    /\ runs = 1
    /\ Len(history_file.data) = HISTORY_CAP
    /\ history_file.data[1].timestamp = now
    /\ history_file.data[HISTORY_CAP] = hist0.data[HISTORY_CAP - 1]
    /\ \A i \in 1..HISTORY_CAP : history_file.data[i] # hist0.data[HISTORY_CAP]

\* the environment holds no usable credential: GEMINI_API_KEY unset or empty
CredentialMissing == ~environ.present \/ environ.value = ""

\* C14: with a credential configured, an empty submission ends in EmptyInput, with
\* no model invocation and the store as it was; with the credential missing, an
\* empty submission ends in ConfigurationError, not in EmptyInput.  Refuted: with
\* GEMINI_API_KEY unset the placeholder of line 15 passes the test of line 187
\* (the bug of C7) and the empty submission ends in EmptyInput.
C14_EmptyInputAfterCredential ==
    (pc = "idle" /\ runs > 0 /\ empty_input) =>
        /\ ~CredentialMissing =>
              /\ terminal = "EmptyInput"
              /\ invocations = <<>>
              /\ history_file = hist0
        /\ CredentialMissing => terminal = "ConfigurationError"

\* C15: once is_crisis is true after the crisis check (asked or short-circuited),
\* the run ends in SafetyIntervention: no therapy, summary or journaling
\* invocation, the mood shown is "Crisis Detected" whatever label was detected, and
\* the safety card is visible; the safety card is visible in no other terminal state.
C15_CrisisEndsInSafety ==
    /\ is_crisis =>
          /\ pc = "idle"
          /\ terminal = "SafetyIntervention"
          /\ invocations \in { <<"mood">>, <<"mood", "crisis">> }
          /\ out.mood = <<"Crisis Detected">>
          /\ out.safety.visible
          /\ out.safety.value = risk_msg
    /\ out.safety.visible => terminal = "SafetyIntervention"
    /\ terminal = "SafetyIntervention" => is_crisis
    /\ (pc = "gen" /\ stage \in {"therapy", "summary", "journal"}) => ~is_crisis

C15_Witness ==
    /\ is_crisis /\ ~is_risk
    /\ mood = "Neutral"
    /\ invocations = <<"mood", "crisis">>
    /\ terminal = "SafetyIntervention"
    /\ out.mood = <<"Crisis Detected">>
    /\ out.safety.visible

\* the five prompts of a full run, in the order of lines 196-233
FivePrompts == <<"mood", "crisis", "therapy", "summary", "journal">>

\* C16: a run that ends in Success has made exactly five generate_with_fallback
\* calls, in the order mood detection, crisis check, therapy, summary, journaling;
\* each call is issued only after the one before has returned and, where its
\* response is structured, parsed; the history file is written after all five.
C16_FiveCallsThenAppend ==
    /\ terminal = "Success" => invocations = FivePrompts
    /\ Len(invocations) <= Len(FivePrompts)
    /\ \A k \in 1..Len(invocations) : invocations[k] = FivePrompts[k]
    /\ pc = "gen" =>
          /\ invocations # <<>> /\ stage = Last(invocations)
          /\ Len(invocations) >= 2 => mood # None
          /\ Len(invocations) >= 3 => ~is_crisis
          /\ Len(invocations) >= 4 => therapy_msg # <<>>
          /\ Len(invocations) >= 5 => summary_data # NoData
    /\ pc \in {"persist", "format"} =>
          /\ invocations = FivePrompts
          /\ journal_data # NoData
    /\ pc = "persist" => history_file = hist0
    /\ history_file # hist0 => invocations = FivePrompts

C16_Witness ==
    /\ pc = "idle" /\ terminal = "Success"
    /\ invocations = FivePrompts
    /\ history_file # hist0
    /\ history_file.data[1].timestamp = now

Terminals ==
    {"ConfigurationError", "EmptyInput", "PipelineError", "SafetyIntervention", "Success"}

\* C17: provided every model call returns or fails, every run of analyze_process
\* comes to an end in exactly one of the five terminal states and hands its outputs
\* to the presentation layer; a failed model call, a failed parse or a failed
\* history read or write ends the run in PipelineError (or is absorbed by
\* load_history), it never leaves the run unfinished.
C17_EveryRunTerminates ==
    /\ [](pc # "idle" => terminal = "none")
    /\ []((pc = "idle" /\ runs > 0) => (terminal \in Terminals /\ out # NoOutputs))
    /\ []((terminal = "PipelineError") => (exc # NoError /\ out = ErrorOutputs(exc)))
    /\ (pc # "idle") ~> (pc = "idle" /\ terminal \in Terminals)

C17_Witness ==
    /\ pc = "idle" /\ terminal = "PipelineError"
    /\ exc \in WriteErrors
    /\ invocations = FivePrompts
    /\ hist0 = CorruptFile
    /\ history_file = hist0

\* the mood label the mood-detection response carried, as the run in its crisis
\* step still holds it in response
CarriedMood ==
    LET d == Parse(response).value
    IN  IF "mood" \in DOMAIN d THEN d.mood ELSE "Unknown"

\* the first call after mood detection has just been issued
JustDetected ==
    pc = "gen" /\ invocations = <<"mood", "crisis">> /\ cand = 1 /\ attempts # <<>>

\* C18 as stated: the mood label a run produces, and so the mood of every entry
\* the pipeline stores, is one of the eight labels whatever the service returns.
\* Refuted: the label is taken from the response unchecked, "Unknown" when absent.
C18_MoodInClosedSet ==
    /\ mood # None => mood \in MoodLabels
    /\ terminal = "Success" => history_file.data[1].mood \in MoodLabels

\* C18 amended: the mood label is the string the mood-detection response carries
\* under "mood", taken unchecked, or "Unknown" when the key is absent; a Success
\* run shows and stores exactly that label, so it is one of the eight labels only
\* when the service returned one of them.
C18_MoodAsReturned ==
    /\ JustDetected => mood = CarriedMood
    /\ (pc = "idle" /\ terminal = "Success") =>
          /\ out.mood[1] = mood
          /\ history_file.data[1].mood = mood
    /\ \A i \in 1..Len(Stored(history_file)) :
          history_file.data[i].mood \in MoodLabels \cup {"Unknown", "Confused"}

C18_Witness ==
    /\ pc = "idle" /\ terminal = "Success"
    /\ runs = 2
    /\ Len(Stored(history_file)) >= 2
    /\ history_file.data[1].mood = "Confused"
    /\ history_file.data[2].mood = "Unknown"
    /\ out.mood[1] = "Confused"

\* C19: load_history always yields a sequence: all the entries of a readable file,
\* none when the file is missing or does not parse; so after k appends a store
\* that started readable holds the k new entries followed by its old ones (up to
\* the cap), and a store that started missing or corrupt holds the new entries
\* only, a single one after the first append.
C19_LoadAllOrNothing ==
    (pc = "store" /\ runs > 0) =>
        LET new == history_file.data
            k == IF runs < HISTORY_CAP THEN runs ELSE HISTORY_CAP
        IN  /\ history_file.exists /\ history_file.valid
            /\ history = new
            /\ \A i \in 1..k : new[i].timestamp = now - i + 1
            /\ IF hist0.exists /\ hist0.valid
               THEN /\ Len(new) = (IF Len(hist0.data) + runs < HISTORY_CAP
                                   THEN Len(hist0.data) + runs ELSE HISTORY_CAP)
                    /\ \A i \in (k + 1)..Len(new) : new[i] = hist0.data[i - k]
               ELSE /\ Len(new) = k
                    /\ runs = 1 =>
                          new = <<Entry(now, final_input, mood, confidence, summary_data)>>

C19_Witness ==
    /\ pc = "store"
    /\ hist0 = CorruptFile
    /\ hist0.data # <<>>
    /\ runs = 1
    /\ history_file.valid
    /\ Len(history_file.data) = 1
    /\ history_file.data[1].timestamp = now

\* both save_history calls have returned
AllDone == pc = "writers" /\ \A w \in Writers : writers[w].at = "done"

\* the new entries the file holds
Kept == { w \in Writers : \E i \in 1..Len(Stored(history_file)) :
                             history_file.data[i] = EntryOf(w) }

\* C20: save_history takes no lock.  When the two calls run one at a time, both
\* new entries are in the file, the later one first, ahead of the earlier entries
\* the cap leaves room for; when both calls read the file before either wrote it,
\* the file ends up with one of the two new entries only.
C20_LostUpdateWithoutLock ==
    AllDone =>
        /\ history_file.exists /\ history_file.valid
        /\ Kept # {}
        /\ ~overlapped =>
              /\ Kept = Writers
              /\ \E w \in Writers :
                    history_file.data =
                        Take(<<EntryOf(w)>> \o <<EntryOf(3 - w)>> \o Stored(hist0), HISTORY_CAP)
        /\ (\A w \in Writers : writers[w].read = Stored(hist0)) =>
              /\ overlapped
              /\ Cardinality(Kept) = 1

C20_Witness ==
    /\ AllDone
    /\ overlapped
    /\ \A w \in Writers : writers[w].read = Stored(hist0)
    /\ Len(Stored(hist0)) = 1
    /\ Kept = {1}
    /\ Len(history_file.data) = 2

====
